---- MODULE Spec2Model ----
(***************************************************************************)
(* A model of mailrail (github.com/ljosa/mailrail): the driver `process`,  *)
(* the job processor `processJob` with its checkpointed, rate-limited send *)
(* loop, the mailing builder and the checkpoint store.                     *)
(*                                                                         *)
(* One job lives in the persistent queue.  The external collaborators are  *)
(* modelled at their interface: the queue (pqueue) moves the job between   *)
(* its directories, SES answers GetSendQuota and SendEmail with any of the *)
(* outcomes the code distinguishes, the token bucket yields tokens, and    *)
(* job.Get / job.Set may fail; a failed job.Set leaves the stored          *)
(* attribute as it was.                                                    *)
(***************************************************************************)
EXTENDS Integers, Sequences, FiniteSets, TLC

(***************************************************************************)
(* Bounds of the model.                                                    *)
(***************************************************************************)
\* largest number of recipients of the job
MaxRecipients == 2
\* most transient SES faults answered within one call of processJob
MaxTransient == 2

\* the largest value handed to setCheckpoint when the store is taken alone
MaxCheckpoint == 12

VARIABLES
    mode,        \* process(): the run's mode
    mangler,     \* process(): the run's mangler
    drv,         \* process(): "open", "take", "job", or "down" when no run is alive
    nRescue,     \* q.RescueDeadJobs calls of this run
    taken,       \* this run has called q.Take
    jobSpec,     \* the job's "spec" attribute
    jobLoc,      \* the queue directory the job is in: "queue", "cur", "failed", "done"
    checkpoint,  \* the job's "recipients_sent" attribute: <<>> absent, <<bytes>> stored
    pc,          \* processJob: the statement it is at
    i,           \* processJob: the loop index
    tb,          \* processJob: the token bucket, "none", "running", "stopped"
    nStops,      \* tb.Stop calls of this processJob call
    params,      \* what computeSendEmailInput last returned: <<>> or <<result>>
    startCp,     \* the checkpoint attribute when processJob was entered
    log,         \* mailing.send calls of this processJob call: <<[i, out]>>
    cpLog,       \* values this processJob call stored as the checkpoint
    calls,       \* job.Fail / job.Finish / job.Submit calls of this processJob call
    nBackoff,    \* tb.Backoff calls of this processJob call
    nTokens,     \* tokens received from tb.Bucket in this processJob call
    nQuota,      \* GetSendQuota calls of this processJob call
    fault,       \* the step of this processJob call that failed it, or "none"
    confirmed,   \* recipient indices SES has confirmed a transmission for
    succeeded    \* recipient indices whose mailing.send returned without error

vars ==
    <<mode, mangler, drv, nRescue, taken, jobSpec, jobLoc, checkpoint, pc, i, tb, nStops,
      params, startCp, log, cpLog, calls, nBackoff, nTokens, nQuota, fault, confirmed, succeeded>>

(***************************************************************************)
(* Job content: the spec attribute (Spec, Recipient: mailrail.go 103-119). *)
(***************************************************************************)
\* the one context key the templates of the model refer to
Keys == {"pet_name"}

\* template sources: none, one that does not parse, a field reference and
\* a call of the builtin index on the field's value
TemplateSources == {"", "{{", "{{.pet_name}}", "{{index .pet_name 0}}"}

\* recipient addresses
Addrs == {"janedoe@example.com", "jimdoe@example.org"}

\* sender names: none, printable ASCII, and one with a letter outside ASCII
FromNames == {"", "Johnny", "Jøhnny"}

\* sender addresses: none, or one
FromAddrs == {"", "johnnydoe@example.com"}

\* subjects: none, or one
Subjects == {"", "Hi there"}

\* Recipient (mailrail.go 103-110): the context is the set of keys it maps
Recipients ==
    [Addr : Addrs, FromName : FromNames, FromAddr : FromAddrs, Subject : Subjects,
     Context : SUBSET Keys]

\* recipients that override nothing of the job's sender and subject
PlainRecipients ==
    {r \in Recipients :
        r.Addr = "janedoe@example.com" /\ r.FromName = "" /\ r.FromAddr = "" /\ r.Subject = ""}

RECURSIVE SeqsUpTo(_, _)
SeqsUpTo(S, k) ==
    IF k = 0 THEN {<<>>}
    ELSE LET shorter == SeqsUpTo(S, k - 1)
         IN  shorter \cup {Append(s, x) : s \in {t \in shorter : Len(t) = k - 1}, x \in S}

\* recipient lists of a job: the recipient whose context is empty, if there
\* is one, at any place in the list
RecipientLists ==
    {s \in SeqsUpTo(PlainRecipients, MaxRecipients) :
        \A j, k \in 1 .. Len(s) : (s[j].Context = {} /\ s[k].Context = {}) => j = k}

\* the bytes of the job's "spec" attribute: missing, not JSON, or a Spec
JobSpecs ==
    {[raw |-> r, FromName |-> "", FromAddr |-> "", Subject |-> "", Text |-> "", Html |-> "",
      Recipients |-> <<>>] : r \in {"missing", "malformed"}}
    \cup [raw : {"json"}, FromName : {"John Doe"}, FromAddr : {"johndoe@example.com"},
          Subject : {"Hello"}, Text : TemplateSources, Html : TemplateSources,
          Recipients : RecipientLists]

\* specs of one recipient, with every combination of job-level and
\* recipient-level sender and subject
ResolveJobs ==
    [raw : {"json"}, FromName : {"", "John Doe", "John Dø"},
     FromAddr : {"", "johndoe@example.com"},
     Subject : {"", "Hello"}, Text : {"{{.pet_name}}"}, Html : {""},
     Recipients : {<<r>> : r \in Recipients}]

(***************************************************************************)
(* Manglers (mailrail.go 36-40, 338-364).                                  *)
(***************************************************************************)
identityAddr == [kind |-> "identity", addr |-> ""]

alwaysAddr(addr) == [kind |-> "always", addr |-> addr]

\* a Mangle function that returns every address as it is
Mangle_Never(m, addr) == addr

\* m.Mangle(addr) (line 281): the function value of mangler m applied
Mangle(m, addr) ==
    IF m.Mangle.kind = "always" THEN m.Mangle.addr ELSE addr

DoNotMangle == [ShouldSend |-> TRUE, Mangle |-> identityAddr, SesService |-> "nil"]

DoNotSend == [ShouldSend |-> FALSE, Mangle |-> identityAddr, SesService |-> "nil"]

SendToMe(addr) == [ShouldSend |-> TRUE, Mangle |-> alwaysAddr(addr), SesService |-> "nil"]

SendToSimulator ==
    [ShouldSend |-> TRUE, Mangle |-> alwaysAddr("success@simulator.amazonses.com"),
     SesService |-> "nil"]

UseMockSesService(ses) == [ShouldSend |-> TRUE, Mangle |-> identityAddr, SesService |-> ses]

Manglers ==
    {DoNotMangle, DoNotSend, SendToMe("johndoe@example.net"), SendToSimulator,
     UseMockSesService("MockSES")}

\* the manglers the runs of process() are given: one that sends to the
\* recipient, one that sends nowhere and one that sends elsewhere
RunManglers == {DoNotMangle, DoNotSend, SendToSimulator}

\* processMode (mailrail.go 57-63)
Modes == {"foreverMode", "oneMode", "allMode"}

(***************************************************************************)
(* The transmission service's answers to SendEmail, as processJob tells    *)
(* them apart: a message id, an awserr.Error with a code, or an error that *)
(* is no awserr.Error.                                                     *)
(***************************************************************************)
SendOutcomes ==
    {[kind |-> "messageId", code |-> ""],
     [kind |-> "awserr", code |-> "Throttling"],
     [kind |-> "awserr", code |-> "ServiceUnavailable"],
     [kind |-> "awserr", code |-> "MessageRejected"],
     [kind |-> "error", code |-> ""]}

(***************************************************************************)
(* Templates (text/template, html/template as getMailing and               *)
(* computeSendEmailInput use them, with no missingkey option set).         *)
(***************************************************************************)
\* Template.Parse: the error of parsing a template source
ParseError(src) == src = "{{"

\* the value of key in a map[string]string: a missing key yields the zero
\* value of the element type, the empty string
MapIndex(context, key) == IF key \in context THEN "Janie" ELSE ""

\* Template.Execute on a recipient's context
Execute(src, context) ==
    CASE src = "{{.pet_name}}" ->
            [err |-> FALSE, out |-> MapIndex(context, "pet_name")]
      [] src = "{{index .pet_name 0}}" ->
            IF MapIndex(context, "pet_name") = ""
            THEN [err |-> TRUE, out |-> ""]     \* index out of range
            ELSE [err |-> FALSE, out |-> "74"]  \* the byte at index 0
      [] OTHER -> [err |-> FALSE, out |-> src]

(***************************************************************************)
(* Mailing builder (mailrail.go 198-292).                                  *)
(***************************************************************************)
\* getMailing: "" or the error; a template is <<>> (nil) or <<source>>
getMailing(attr) ==
    IF attr.raw = "missing" THEN [err |-> "Cannot get spec", mailing |-> <<>>]
    ELSE IF attr.raw = "malformed" THEN [err |-> "Cannot parse spec", mailing |-> <<>>]
    ELSE IF attr.Text # "" /\ ParseError(attr.Text)
    THEN [err |-> "Cannot parse text template", mailing |-> <<>>]
    ELSE IF attr.Html # "" /\ ParseError(attr.Html)
    THEN [err |-> "Cannot parse html template", mailing |-> <<>>]
    ELSE [err |-> "",
          mailing |-> <<[spec |-> attr,
                         textTemplate |-> IF attr.Text # "" THEN <<attr.Text>> ELSE <<>>,
                         htmlTemplate |-> IF attr.Html # "" THEN <<attr.Html>> ELSE <<>>]>>]

\* the sender names of the model with a letter outside ASCII
NonASCIINames == {"Jøhnny", "John Dø"}

\* mime.QEncoding.Encode("utf-8", name) for those names: an encoded word
\* with the bytes outside printable ASCII as =XX and the space as _
QEncode(name) ==
    IF name = "Jøhnny" THEN "=?utf-8?q?J=C3=B8hnny?=" ELSE "=?utf-8?q?John_D=C3=B8?="

\* every character of the name is printable ASCII
IsPrintableASCII(name) == name \notin NonASCIINames

\* mail.Address{name, addr}.String() (lines 315-316), name not empty: the
\* name quoted when it is printable ASCII and Q-encoded when not, then the
\* address in angle brackets
AddressString(name, addr) ==
    (IF IsPrintableASCII(name) THEN "\"" \o name \o "\"" ELSE QEncode(name))
        \o " <" \o addr \o ">"

\* a sender taken as a whole from the recipient when it names one
computeSource_Coupled(mailing, r) ==
    LET recipient == mailing.spec.Recipients[r + 1]
        from == IF recipient.FromName # "" THEN recipient ELSE mailing.spec
    IN  IF from.FromAddr = "" THEN "<>"
        ELSE IF from.FromName = "" THEN from.FromAddr
        ELSE AddressString(from.FromName, from.FromAddr)

\* computeSource (lines 294-318)
computeSource(mailing, r) ==
    LET recipient == mailing.spec.Recipients[r + 1]
        fromName == IF recipient.FromName # "" THEN recipient.FromName
                    ELSE IF mailing.spec.FromName # "" THEN mailing.spec.FromName
                    ELSE ""
        fromAddr == IF recipient.FromAddr # "" THEN recipient.FromAddr
                    ELSE mailing.spec.FromAddr
    IN  IF fromAddr = "" THEN "<>"
        ELSE IF fromName = "" THEN fromAddr
        ELSE AddressString(fromName, fromAddr)

\* computeSubject (lines 320-327)
computeSubject(mailing, r) ==
    LET recipient == mailing.spec.Recipients[r + 1]
    IN  IF recipient.Subject # "" THEN recipient.Subject ELSE mailing.spec.Subject

\* the result of computeSendEmailInput when a template fails to render
NoParams(err) ==
    [err |-> err, Source |-> "", Destination |-> <<>>, Subject |-> "", Text |-> <<>>,
     Html |-> <<>>]

\* the error computeSendEmailInput returns for recipient r (lines 259-277):
\* that of the first template that fails to render, or ""
RenderError(mailing, r) ==
    LET recipient == mailing.spec.Recipients[r + 1]
    IN  IF /\ mailing.textTemplate # <<>>
           /\ Execute(mailing.textTemplate[1], recipient.Context).err
        THEN "Failed to render text template"
        ELSE IF /\ mailing.htmlTemplate # <<>>
                /\ Execute(mailing.htmlTemplate[1], recipient.Context).err
        THEN "Failed to render HTML template"
        ELSE ""

\* computeSendEmailInput: the request for recipient r (0-based), or the error;
\* a body's Data is <<>> (nil) when its template is nil
computeSendEmailInput(mailing, r, m) ==
    LET recipient == mailing.spec.Recipients[r + 1]
        text == IF mailing.textTemplate # <<>>
                THEN Execute(mailing.textTemplate[1], recipient.Context)
                ELSE [err |-> FALSE, out |-> ""]
        html == IF mailing.htmlTemplate # <<>>
                THEN Execute(mailing.htmlTemplate[1], recipient.Context)
                ELSE [err |-> FALSE, out |-> ""]
    IN  IF RenderError(mailing, r) # "" THEN NoParams(RenderError(mailing, r))
        ELSE [err |-> "",
              Source |-> computeSource(mailing, r),
              Destination |-> [ToAddresses |-> <<Mangle(m, recipient.Addr)>>,
                               CcAddresses |-> <<>>, BccAddresses |-> <<>>],
              Subject |-> computeSubject(mailing, r),
              Text |-> IF mailing.textTemplate # <<>> THEN <<text.out>> ELSE <<>>,
              Html |-> IF mailing.htmlTemplate # <<>> THEN <<html.out>> ELSE <<>>]

\* a dry run that stops short of the last recipient
DryRunRange_ButLast(mailing) == 0 .. Len(mailing.spec.Recipients) - 2

\* the recipient indices dryRun goes through
DryRunRange(mailing) == 0 .. Len(mailing.spec.Recipients) - 1

\* dryRun: TRUE when computeSendEmailInput fails for some recipient
dryRun(mailing, m) ==
    \E r \in DryRunRange(mailing) : RenderError(mailing, r) # ""

(***************************************************************************)
(* Checkpoint store (unnamed/part_001 10-40).                              *)
(***************************************************************************)
\* the decimal digits, as the characters of a JSON number
DigitChars == <<"0", "1", "2", "3", "4", "5", "6", "7", "8", "9">>

\* the decimal numeral of k >= 0, a sequence of digit characters
RECURSIVE Numeral(_)
Numeral(k) ==
    IF k < 10 THEN <<DigitChars[k + 1]>>
    ELSE Append(Numeral(k \div 10), DigitChars[(k % 10) + 1])

\* the digit a character stands for, or -1
DigitValue(c) ==
    CASE c = "0" -> 0 [] c = "1" -> 1 [] c = "2" -> 2 [] c = "3" -> 3 [] c = "4" -> 4
      [] c = "5" -> 5 [] c = "6" -> 6 [] c = "7" -> 7 [] c = "8" -> 8 [] c = "9" -> 9
      [] OTHER -> 0 - 1

\* the number a sequence of digit characters stands for
RECURSIVE NumeralValue(_)
NumeralValue(cs) ==
    IF cs = <<>> THEN 0
    ELSE 10 * NumeralValue(SubSeq(cs, 1, Len(cs) - 1)) + DigitValue(cs[Len(cs)])

\* json.Marshal(checkpoint{k}), k >= 0: the bytes {"recipients_sent":k} as
\* the sequence of the JSON tokens, the number digit by digit
MarshalCheckpoint(k) == <<"{", "\"recipients_sent\"", ":">> \o Numeral(k) \o <<"}">>

\* an unmarshalling that reads the first digit of the number only
UnmarshalCheckpoint_FirstDigit(bytes) ==
    [err |-> FALSE, RecipientsSent |-> DigitValue(bytes[4])]

\* json.Unmarshal(bytes, &checkpoint) (lines 35-38) on an object with the
\* one member "recipients_sent" and a number >= 0: the error, or the number
UnmarshalCheckpoint(bytes) ==
    IF /\ Len(bytes) >= 5
       /\ SubSeq(bytes, 1, 3) = <<"{", "\"recipients_sent\"", ":">>
       /\ bytes[Len(bytes)] = "}"
       /\ \A k \in 4 .. Len(bytes) - 1 : DigitValue(bytes[k]) >= 0
    THEN [err |-> FALSE, RecipientsSent |-> NumeralValue(SubSeq(bytes, 4, Len(bytes) - 1))]
    ELSE [err |-> TRUE, RecipientsSent |-> 0]

\* getCheckpoint resuming one recipient early
getCheckpoint_OneEarly(attr) ==
    IF attr = <<>> THEN 0 ELSE UnmarshalCheckpoint(attr[1]).RecipientsSent - 1

\* getCheckpoint resuming one recipient late
getCheckpoint_OneLate(attr) ==
    IF attr = <<>> THEN 0 ELSE UnmarshalCheckpoint(attr[1]).RecipientsSent + 1

\* getCheckpoint ignoring the stored attribute
getCheckpoint_FromStart(attr) == 0

\* getCheckpoint on the attribute as stored: 0 when it does not exist
getCheckpoint(attr) ==
    IF attr = <<>> THEN 0 ELSE UnmarshalCheckpoint(attr[1]).RecipientsSent

\* the error of getCheckpoint on the attribute as stored (lines 36-38): none
\* when it does not exist
getCheckpointError(attr) == attr # <<>> /\ UnmarshalCheckpoint(attr[1]).err

\* storing the number of sends tried, retries included
NextCheckpoint_Tries(r) == Len(log)

\* storing the index of the recipient instead of the count
NextCheckpoint_Index(r) == r

\* the value processJob stores after the send for recipient r
NextCheckpoint(r) == r + 1

(***************************************************************************)
(* Classification of a mailing.send result (mailrail.go 164-188).          *)
(***************************************************************************)
\* backing off on Throttling alone
Classify_ThrottlingOnly(out) ==
    IF out.kind \in {"messageId", "NullMangler"} THEN "sent"
    ELSE IF out.kind = "awserr" /\ out.code = "Throttling" THEN "backoff"
    ELSE "fail"

\* backing off on every error of the service
Classify_RetryAnyAwsError(out) ==
    IF out.kind \in {"messageId", "NullMangler"} THEN "sent"
    ELSE IF out.kind = "awserr" THEN "backoff"
    ELSE "fail"

Classify(out) ==
    IF out.kind \in {"messageId", "NullMangler"} THEN "sent"
    ELSE IF out.kind = "awserr"
    THEN IF out.code = "Throttling" THEN "backoff"
         ELSE IF out.code = "ServiceUnavailable" THEN "backoff"
         ELSE "fail"
    ELSE "fail"


(***************************************************************************)
(* State after construction: a job with its spec attribute and no          *)
(* checkpoint has been submitted, and process() is entered.                *)
(***************************************************************************)
Init ==
    /\ mode \in Modes
    /\ mangler \in RunManglers
    /\ drv = "open"
    /\ nRescue = 0
    /\ taken = FALSE
    /\ jobSpec \in JobSpecs
    /\ jobLoc = "queue"
    /\ checkpoint = <<>>
    /\ pc = "idle"
    /\ i = 0
    /\ tb = "none"
    /\ nStops = 0
    /\ params = <<>>
    /\ startCp = <<>>
    /\ log = <<>>
    /\ cpLog = <<>>
    /\ calls = <<>>
    /\ nBackoff = 0
    /\ nTokens = 0
    /\ nQuota = 0
    /\ fault = "none"
    /\ confirmed = {}
    /\ succeeded = {}

jobVars == <<jobSpec, jobLoc, checkpoint>>

localVars == <<pc, i, tb, nStops, params>>

runVars == <<nRescue, taken>>

historyVars == <<startCp, log, cpLog, calls, nBackoff, nTokens, nQuota, fault>>

\* the mailing processJob built (line 133), once getMailing has succeeded
Mailing == getMailing(jobSpec).mailing[1]

\* n := len(mailing.spec.Recipients) (line 158)
n == Len(Mailing.spec.Recipients)

\* number of transient faults in the log
Transients == Cardinality({k \in 1 .. Len(log) : Classify(log[k].out) = "backoff"})

(***************************************************************************)
(* The driver, process() (mailrail.go 65-93).                              *)
(***************************************************************************)
\* a run that goes to its first take without rescuing
RescueDeadJobs_Skipped ==
    /\ drv = "open"
    /\ drv' = "take"
    /\ UNCHANGED <<mode, mangler, runVars, jobVars, localVars, historyVars, confirmed,
                   succeeded>>

\* q.RescueDeadJobs() (line 74): a job left in cur by a dead run is queued again
RescueDeadJobs ==
    /\ drv = "open"
    /\ drv' = "take"
    /\ jobLoc' = IF jobLoc = "cur" THEN "queue" ELSE jobLoc
    /\ nRescue' = nRescue + 1
    /\ UNCHANGED <<mode, mangler, taken, jobSpec, checkpoint, localVars,
                   historyVars, confirmed, succeeded>>

\* no call of processJob is under way: its locals and its history are void
NoCall ==
    /\ pc' = "idle"
    /\ i' = 0
    /\ tb' = "none"
    /\ nStops' = 0
    /\ params' = <<>>
    /\ startCp' = <<>>
    /\ log' = <<>>
    /\ cpLog' = <<>>
    /\ calls' = <<>>
    /\ nBackoff' = 0
    /\ nTokens' = 0
    /\ nQuota' = 0
    /\ fault' = "none"

\* q.Take() returns the job (lines 76, 87): processJob is entered
Take ==
    /\ drv = "take"
    /\ jobLoc = "queue"
    /\ jobLoc' = "cur"
    /\ drv' = "job"
    /\ pc' = "getMailing"
    /\ startCp' = checkpoint
    /\ taken' = TRUE
    /\ UNCHANGED nRescue
    /\ UNCHANGED <<i, tb, nStops, params, log, cpLog, calls, nBackoff, nTokens, nQuota, fault>>
    /\ UNCHANGED <<mode, mangler, jobSpec, checkpoint, confirmed, succeeded>>

\* q.Take() returns nil (lines 80-91): sleep in forever mode, else return
TakeNone ==
    /\ drv = "take"
    /\ jobLoc # "queue"
    /\ drv' = IF mode = "foreverMode" THEN "take" ELSE "down"
    /\ taken' = TRUE
    /\ UNCHANGED <<mode, mangler, nRescue, jobVars, localVars, historyVars, confirmed, succeeded>>

\* processJob has returned (lines 87-91): take again, or return in one-job mode
AfterJob ==
    /\ drv = "job"
    /\ pc = "returned"
    /\ NoCall
    /\ drv' = IF mode = "oneMode" THEN "down" ELSE "take"
    /\ UNCHANGED <<mode, mangler, runVars, jobVars, confirmed, succeeded>>

\* the run dies at any point: the job stays where it is, the bucket and the
\* run's own counts are gone
Crash ==
    /\ drv # "down"
    /\ drv' = "down"
    /\ NoCall
    /\ nRescue' = 0
    /\ taken' = FALSE
    /\ UNCHANGED <<mode, mangler, jobVars, confirmed, succeeded>>

\* ProcessForever, ProcessOne or Process is called with a mangler (lines 42-55,
\* 65-73): a run of process() opens the queue
StartRun ==
    /\ drv = "down"
    /\ mode' \in Modes
    /\ mangler' \in RunManglers
    /\ drv' = "open"
    /\ nRescue' = 0
    /\ taken' = FALSE
    /\ UNCHANGED <<jobVars, localVars, historyVars, confirmed, succeeded>>

(***************************************************************************)
(* The job's terminal operations, as processJob calls them; the deferred   *)
(* tb.Stop() (line 151) runs once the bucket exists.                       *)
(***************************************************************************)
\* a return that leaves the bucket running
StopBucket_Leak == UNCHANGED <<tb, nStops>>

\* defer tb.Stop() (line 151): it runs at the return, once the bucket exists
StopBucket ==
    IF tb = "none"
    THEN UNCHANGED <<tb, nStops>>
    ELSE tb' = "stopped" /\ nStops' = nStops + 1

Return(call, dir, why) ==
    /\ calls' = Append(calls, call)
    /\ jobLoc' = dir
    /\ fault' = why
    /\ pc' = "returned"
    /\ StopBucket

Fail(why) == Return("Fail", "failed", why)

Finish == Return("Finish", "done", fault)

Submit(why) == Return("Submit", "queue", why)

(***************************************************************************)
(* processJob (mailrail.go 132-196), one action per step.                  *)
(***************************************************************************)
\* lines 133-138
GetMailing ==
    /\ pc = "getMailing"
    /\ IF getMailing(jobSpec).err # ""
       THEN Fail("getMailing")
       ELSE /\ pc' = "dryRun"
            /\ UNCHANGED <<jobLoc, tb, nStops, calls, fault>>
    /\ UNCHANGED <<mode, mangler, drv, runVars, params, jobSpec, checkpoint, i, startCp,
                   log, cpLog, nBackoff, nTokens, nQuota, confirmed, succeeded>>

\* lines 139-143
DryRun ==
    /\ pc = "dryRun"
    /\ IF dryRun(Mailing, mangler)
       THEN Fail("dryRun")
       ELSE /\ pc' = "getMaxSendRate"
            /\ UNCHANGED <<jobLoc, tb, nStops, calls, fault>>
    /\ UNCHANGED <<mode, mangler, drv, runVars, params, jobSpec, checkpoint, i, startCp,
                   log, cpLog, nBackoff, nTokens, nQuota, confirmed, succeeded>>

\* failing the job when the quota query has failed
QuotaError_Fail == Fail("getMaxSendRate")

\* lines 145-149: what processJob does when the quota query has failed
QuotaError == Submit("getMaxSendRate")

\* lines 144-151 and getMaxSendRate (329-336): the quota query fails, or it
\* succeeds and the token bucket is created
GetMaxSendRate ==
    /\ pc = "getMaxSendRate"
    /\ nQuota' = nQuota + 1
    /\ \E err \in BOOLEAN :
          IF err
          THEN QuotaError
          ELSE /\ tb' = "running"
               /\ pc' = "getCheckpoint"
               /\ UNCHANGED nStops
               /\ UNCHANGED <<jobLoc, calls, fault>>
    /\ UNCHANGED <<mode, mangler, drv, runVars, params, jobSpec, checkpoint, i, startCp, log, cpLog,
                   nBackoff, nTokens, confirmed, succeeded>>

\* lines 152-158: the checkpoint is read, or job.Get fails on an existing
\* attribute, or the attribute does not parse
GetCheckpoint ==
    /\ pc = "getCheckpoint"
    /\ \E err \in BOOLEAN :
          IF err
          THEN /\ checkpoint # <<>>
               /\ Fail("getCheckpoint")
               /\ UNCHANGED i
          ELSE IF getCheckpointError(checkpoint)
          THEN /\ Fail("getCheckpoint")
               /\ UNCHANGED i
          ELSE /\ i' = getCheckpoint(checkpoint)
               /\ pc' = "loop"
               /\ UNCHANGED <<jobLoc, tb, nStops, calls, fault>>
    /\ UNCHANGED <<mode, mangler, drv, runVars, params, jobSpec, checkpoint, startCp, log,
                   cpLog, nBackoff, nTokens, nQuota, confirmed, succeeded>>

\* a loop that finishes the job one recipient short
Loop_FinishEarly ==
    /\ pc = "loop"
    /\ IF i < n - 1
       THEN /\ pc' = "token"
            /\ UNCHANGED <<jobLoc, tb, nStops, calls, fault>>
       ELSE Finish
    /\ UNCHANGED <<mode, mangler, drv, runVars, params, jobSpec, checkpoint, i, startCp,
                   log, cpLog, nBackoff, nTokens, nQuota, confirmed, succeeded>>

\* line 159, the test i < n, and line 195
Loop ==
    /\ pc = "loop"
    /\ IF i < n
       THEN /\ pc' = "token"
            /\ UNCHANGED <<jobLoc, tb, nStops, calls, fault>>
       ELSE Finish
    /\ UNCHANGED <<mode, mangler, drv, runVars, params, jobSpec, checkpoint, i, startCp,
                   log, cpLog, nBackoff, nTokens, nQuota, confirmed, succeeded>>

\* a bucket that yields no token while it runs
WaitToken_NoToken ==
    /\ pc = "token"
    /\ tb # "running"
    /\ nTokens' = nTokens + 1
    /\ pc' = "send"
    /\ UNCHANGED <<mode, mangler, drv, runVars, params, jobVars, i, tb, nStops, startCp, log, cpLog, calls,
                   nBackoff, nQuota, fault, confirmed, succeeded>>

\* line 161: a token arrives from the running bucket
WaitToken ==
    /\ pc = "token"
    /\ tb = "running"
    /\ nTokens' = nTokens + 1
    /\ pc' = "send"
    /\ UNCHANGED <<mode, mangler, drv, runVars, params, jobVars, i, tb, nStops, startCp, log, cpLog, calls,
                   nBackoff, nQuota, fault, confirmed, succeeded>>

\* a send that calls the service whatever the mangler says
SendResults_Always(r) ==
    IF RenderError(Mailing, r) # "" THEN {[kind |-> "error", code |-> "render"]}
    ELSE SendOutcomes

\* mailing.send (lines 241-254): the results it can return for recipient r
SendResults(r) ==
    IF RenderError(Mailing, r) # "" THEN {[kind |-> "error", code |-> "render"]}
    ELSE IF ~mangler.ShouldSend THEN {[kind |-> "NullMangler", code |-> ""]}
    ELSE SendOutcomes

\* a retry that sends again without waiting for a token
AfterBackoff_SendAgain == "send"

\* lines 160-161: where the inner loop goes after tb.Backoff(), to the
\* receive from tb.Bucket at its head
AfterBackoff == "token"

\* lines 163-189: mailing.send and what processJob does with its result
Send ==
    /\ pc = "send"
    /\ params' = <<computeSendEmailInput(Mailing, i, mangler)>>
    /\ \E out \in SendResults(i) :
          /\ log' = Append(log, [i |-> i, out |-> out])
          /\ confirmed' = IF out.kind = "messageId" THEN confirmed \cup {i} ELSE confirmed
          /\ CASE Classify(out) = "sent" ->
                    /\ succeeded' = succeeded \cup {i}
                    /\ pc' = "setCheckpoint"
                    /\ UNCHANGED <<jobLoc, tb, nStops, calls, fault, nBackoff>>
               [] Classify(out) = "backoff" ->
                    /\ Transients < MaxTransient
                    /\ nBackoff' = nBackoff + 1
                    /\ pc' = AfterBackoff
                    /\ UNCHANGED <<jobLoc, tb, nStops, calls, fault, succeeded>>
               [] OTHER ->
                    /\ Fail("send")
                    /\ UNCHANGED <<nBackoff, succeeded>>
    /\ UNCHANGED <<mode, mangler, drv, runVars, jobSpec, checkpoint, i, startCp,
                   cpLog, nTokens, nQuota>>

\* sending again in place when setCheckpoint has failed
CheckpointError_Retry ==
    /\ fault' = "setCheckpoint"
    /\ pc' = "token"
    /\ UNCHANGED <<jobLoc, tb, nStops, calls, checkpoint, cpLog, i>>

\* going on to the next recipient when setCheckpoint has failed
CheckpointError_Continue ==
    /\ fault' = "setCheckpoint"
    /\ i' = i + 1
    /\ pc' = "loop"
    /\ UNCHANGED <<jobLoc, tb, nStops, calls, checkpoint, cpLog>>

\* lines 190-193: what processJob does when setCheckpoint has failed
CheckpointError ==
    /\ Fail("setCheckpoint")
    /\ UNCHANGED <<checkpoint, cpLog, i>>

\* lines 190-194 and setCheckpoint (unnamed/part_001 16-25): job.Set stores
\* the attribute, or fails and leaves it
SetCheckpoint ==
    /\ pc = "setCheckpoint"
    /\ \E err \in BOOLEAN :
          IF err
          THEN CheckpointError
          ELSE /\ checkpoint' = <<MarshalCheckpoint(NextCheckpoint(i))>>
               /\ cpLog' = Append(cpLog, NextCheckpoint(i))
               /\ i' = i + 1
               /\ pc' = "loop"
               /\ UNCHANGED <<jobLoc, tb, nStops, calls, fault>>
    /\ UNCHANGED <<mode, mangler, drv, runVars, params, jobSpec, startCp, log, nBackoff,
                   nTokens, nQuota, confirmed, succeeded>>

\* the queue's owner submits the failed job again, once processJob is over
Resubmit ==
    /\ jobLoc = "failed"
    /\ pc = "idle"
    /\ jobLoc' = "queue"
    /\ UNCHANGED <<mode, mangler, drv, runVars, jobSpec, checkpoint, localVars, historyVars,
                   confirmed, succeeded>>

Next ==
    \/ RescueDeadJobs
    \/ Take
    \/ TakeNone
    \/ AfterJob
    \/ Crash
    \/ StartRun
    \/ GetMailing
    \/ DryRun
    \/ GetMaxSendRate
    \/ GetCheckpoint
    \/ Loop
    \/ WaitToken
    \/ Send
    \/ SetCheckpoint
    \/ Resubmit

Spec == Init /\ [][Next]_vars

(***************************************************************************)
(* One run of process() that does not die, on the queue as submitted, with *)
(* nobody else submitting: the steps of process() and processJob without   *)
(* Crash, StartRun and Resubmit.  process() is one sequential goroutine    *)
(* and the bucket goes on sending tokens while it runs, so a step that is  *)
(* possible is taken: weak fairness on the steps of the run.  Which answer *)
(* the service gives to a call is left open.                               *)
(***************************************************************************)
NextRun ==
    \/ RescueDeadJobs
    \/ Take
    \/ TakeNone
    \/ AfterJob
    \/ GetMailing
    \/ DryRun
    \/ GetMaxSendRate
    \/ GetCheckpoint
    \/ Loop
    \/ WaitToken
    \/ Send
    \/ SetCheckpoint

SpecRun == Init /\ [][NextRun]_vars /\ WF_vars(NextRun)

(***************************************************************************)
(* The checkpoint store on its own: setCheckpoint and getCheckpoint called *)
(* in any order on one job that starts without the attribute.  cpLog holds *)
(* the value of the last setCheckpoint that succeeded, i the value the     *)
(* last getCheckpoint returned and fault the step that last failed.        *)
(***************************************************************************)
InitCheckpoint ==
    /\ mode = "oneMode"
    /\ mangler = DoNotSend
    /\ drv = "job"
    /\ nRescue = 1
    /\ taken = TRUE
    /\ jobSpec \in {j \in JobSpecs : j.raw = "missing"}
    /\ jobLoc = "cur"
    /\ checkpoint = <<>>
    /\ pc = "created"
    /\ i = 0
    /\ tb = "none"
    /\ nStops = 0
    /\ params = <<>>
    /\ startCp = <<>>
    /\ log = <<>>
    /\ cpLog = <<>>
    /\ calls = <<>>
    /\ nBackoff = 0
    /\ nTokens = 0
    /\ nQuota = 0
    /\ fault = "none"
    /\ confirmed = {}
    /\ succeeded = {}

\* setCheckpoint(job, k) (unnamed/part_001 16-25): job.Set stores the bytes,
\* or fails and leaves the attribute
StoreSet ==
    /\ \E k \in 0 .. MaxCheckpoint, err \in BOOLEAN :
          IF err
          THEN /\ fault' = "setCheckpoint"
               /\ UNCHANGED <<checkpoint, cpLog>>
          ELSE /\ checkpoint' = <<MarshalCheckpoint(k)>>
               /\ cpLog' = <<k>>
               /\ fault' = "none"
    /\ pc' = "set"
    /\ UNCHANGED <<mode, mangler, drv, runVars, jobSpec, jobLoc, i, tb, nStops, params, startCp,
                   log, calls, nBackoff, nTokens, nQuota, confirmed, succeeded>>

\* getCheckpoint(job) (unnamed/part_001 27-40)
StoreGet ==
    /\ i' = IF getCheckpointError(checkpoint) THEN 0 ELSE getCheckpoint(checkpoint)
    /\ fault' = IF getCheckpointError(checkpoint) THEN "getCheckpoint" ELSE "none"
    /\ pc' = "got"
    /\ UNCHANGED <<mode, mangler, drv, runVars, jobVars, tb, nStops, params, startCp,
                   log, cpLog, calls, nBackoff, nTokens, nQuota, confirmed, succeeded>>

NextCheckpointStore ==
    \/ StoreSet
    \/ StoreGet

SpecCheckpoint == InitCheckpoint /\ [][NextCheckpointStore]_vars

(***************************************************************************)
(* The request builder on its own: computeSendEmailInput applied to one    *)
(* recipient of a spec drawn from ResolveJobs, under each mangler.         *)
(***************************************************************************)
InitResolve ==
    /\ mode = "oneMode"
    /\ mangler \in Manglers
    /\ drv = "job"
    /\ nRescue = 1
    /\ taken = TRUE
    /\ jobSpec \in ResolveJobs
    /\ jobLoc = "cur"
    /\ checkpoint = <<>>
    /\ pc = "dryRun"
    /\ i = 0
    /\ tb = "none"
    /\ nStops = 0
    /\ params = <<>>
    /\ startCp = <<>>
    /\ log = <<>>
    /\ cpLog = <<>>
    /\ calls = <<>>
    /\ nBackoff = 0
    /\ nTokens = 0
    /\ nQuota = 0
    /\ fault = "none"
    /\ confirmed = {}
    /\ succeeded = {}

\* line 233: dryRun's call of computeSendEmailInput for recipient i
Resolve ==
    /\ pc = "dryRun"
    /\ params = <<>>
    /\ params' = <<computeSendEmailInput(Mailing, i, mangler)>>
    /\ UNCHANGED <<mode, mangler, drv, runVars, jobVars, pc, i, tb, nStops, historyVars,
                   confirmed, succeeded>>

NextResolve == Resolve

SpecResolve == InitResolve /\ [][NextResolve]_vars

(***************************************************************************)
(* Vocabulary of the properties.                                           *)
(***************************************************************************)
\* the count the stored checkpoint stands for; an absent attribute counts 0
Stored(attr) == IF attr = <<>> THEN 0 ELSE UnmarshalCheckpoint(attr[1]).RecipientsSent

\* a call of processJob is under way or has just returned
InCall == pc # "idle"

\* the mailing of the job could be built
Built == getMailing(jobSpec).err = ""

LastSend == log[Len(log)]

TransientCodes == {"Throttling", "ServiceUnavailable"}

\* a send that ended in a TransientServiceFault
IsTransient(e) == e.out.kind = "awserr" /\ e.out.code \in TransientCodes

\* a send that ended in any other failure
IsFatal(e) ==
    \/ e.out.kind = "error"
    \/ e.out.kind = "awserr" /\ e.out.code \notin TransientCodes

\* a send the transmission service was called for
IsServiceCall(e) == e.out.kind \in {"messageId", "awserr"} \/ e.out = [kind |-> "error", code |-> ""]

\* the step appends a send to the log
Sends == Len(log') = Len(log) + 1

(***************************************************************************)
(* C1.  A job with N recipients and no checkpoint, processed with a        *)
(* sending mangler and without any fault: the sends of processJob are the  *)
(* service calls for recipients 0, 1, ..., N-1 in that order, the values   *)
(* stored as the checkpoint are 1, 2, ..., N in that order, and processJob *)
(* returns after calling Finish once and neither Fail nor Submit.          *)
(***************************************************************************)
NoFault == fault = "none" /\ \A k \in 1 .. Len(log) : ~IsTransient(log[k]) /\ ~IsFatal(log[k])

C1_FaultFreeRun ==
    (InCall /\ mangler.ShouldSend /\ startCp = <<>> /\ NoFault) =>
        /\ \A k \in 1 .. Len(log) : log[k].i = k - 1 /\ IsServiceCall(log[k])
        /\ \A k \in 1 .. Len(cpLog) : cpLog[k] = k
        /\ Len(cpLog) <= Len(log) /\ Len(log) <= Len(cpLog) + 1
        /\ checkpoint = IF cpLog = <<>> THEN <<>> ELSE <<MarshalCheckpoint(Len(cpLog))>>
        /\ IF pc = "returned"
           THEN Len(log) = n /\ Len(cpLog) = n /\ calls = <<"Finish">>
           ELSE calls = <<>>

C1_Witness ==
    /\ pc = "returned" /\ mangler.ShouldSend /\ startCp = <<>> /\ NoFault
    /\ n = 2 /\ Len(log) = 2 /\ cpLog = <<1, 2>> /\ calls = <<"Finish">>

(***************************************************************************)
(* C2.  A call of processJob entered with the stored checkpoint k sends    *)
(* only to recipients k .. N-1; with k = N it sends nothing, and if no     *)
(* step before the loop fails it returns after calling Finish.             *)
(***************************************************************************)
C2_ResumeAtCheckpoint ==
    InCall =>
        LET k0 == Stored(startCp)
        IN  /\ \A k \in 1 .. Len(log) : k0 <= log[k].i /\ log[k].i <= n - 1
            /\ Built => k0 <= n
            /\ (Built /\ k0 = n) =>
                  /\ log = <<>>
                  /\ (pc = "returned" /\ fault = "none") => calls = <<"Finish">>

C2_Witness ==
    /\ pc = "returned" /\ fault = "none" /\ Stored(startCp) = 1 /\ n = 2
    /\ Len(log) >= 1 /\ calls = <<"Finish">>

(***************************************************************************)
(* C3.  A send for recipient i that ends in a TransientServiceFault        *)
(* (Throttling, ServiceUnavailable): processJob signals backoff once,      *)
(* leaves the stored checkpoint and i as they are, does not call Fail, and *)
(* waits for the next token; the send that follows is for i again, however *)
(* many transient faults came before it.                                   *)
(***************************************************************************)
C3_TransientRetriesSame ==
    /\ [](/\ \A k \in 1 .. Len(log) - 1 : IsTransient(log[k]) => log[k + 1].i = log[k].i
          /\ nBackoff = Cardinality({k \in 1 .. Len(log) : IsTransient(log[k])}))
    /\ [][(Sends /\ IsTransient(log'[Len(log')])) =>
             /\ log'[Len(log')].i = i
             /\ nBackoff' = nBackoff + 1
             /\ checkpoint' = checkpoint
             /\ i' = i
             /\ calls' = calls /\ calls = <<>>
             /\ pc' = "token"]_vars

C3_Witness ==
    /\ Len(log) = 3 /\ IsTransient(log[1]) /\ IsTransient(log[2])
    /\ log[1].out.code # log[2].out.code
    /\ log[3].i = log[1].i /\ log[3].out.kind = "messageId"
    /\ nBackoff = 2

(***************************************************************************)
(* C4.  A send for recipient i that fails in any other way (another        *)
(* service error code, or an error that is no service error): processJob   *)
(* calls Fail and returns at once; no send follows it, no backoff is       *)
(* signalled and the stored checkpoint stays as it was.                    *)
(***************************************************************************)
C4_FatalFailsAtOnce ==
    /\ [](\A k \in 1 .. Len(log) :
             IsFatal(log[k]) => k = Len(log) /\ pc = "returned" /\ calls = <<"Fail">>)
    /\ [][(Sends /\ IsFatal(log'[Len(log')])) =>
             /\ calls' = <<"Fail">>
             /\ pc' = "returned"
             /\ jobLoc' = "failed"
             /\ nBackoff' = nBackoff
             /\ checkpoint' = checkpoint]_vars

C4_Witness ==
    /\ pc = "returned" /\ Len(log) = 2 /\ n = 2
    /\ log[1].out.kind = "messageId"
    /\ LastSend.out = [kind |-> "awserr", code |-> "MessageRejected"]
    /\ calls = <<"Fail">> /\ Stored(checkpoint) = 1

(***************************************************************************)
(* C5.  As claimed: under every mangler the stored checkpoint equals the   *)
(* number of recipients the transmission service has confirmed a           *)
(* transmission for.  It is read here at the points where no successful    *)
(* send of the running call still awaits its checkpoint write, which is    *)
(* the reading most favourable to the claim.                               *)
(***************************************************************************)
C5_EqualsConfirmed ==
    pc # "setCheckpoint" => Stored(checkpoint) = Cardinality(confirmed)

(***************************************************************************)
(* C5, amended.  The stored checkpoint counts the leading recipients whose *)
(* send returned success and whose checkpoint write succeeded: it never    *)
(* exceeds the number of recipients whose send has returned success and is *)
(* at most one below it; those recipients are 0 .. count-1; and every      *)
(* recipient the service confirmed is among them.  A success is the        *)
(* service's confirmation under a sending mangler and the NullMangler      *)
(* result under a suppressing one.                                         *)
(***************************************************************************)
C5_CountsSuccesses ==
    /\ Stored(checkpoint) <= Cardinality(succeeded)
    /\ Cardinality(succeeded) <= Stored(checkpoint) + 1
    /\ succeeded = 0 .. Cardinality(succeeded) - 1
    /\ confirmed \subseteq succeeded
    /\ \A k \in 1 .. Len(log) :
          /\ log[k].out.kind = "messageId" => mangler.ShouldSend /\ log[k].i \in confirmed
          /\ log[k].out.kind = "NullMangler" => ~mangler.ShouldSend

C5_Witness ==
    /\ ~mangler.ShouldSend /\ pc = "setCheckpoint"
    /\ Stored(checkpoint) = 1 /\ succeeded = {0, 1} /\ confirmed = {}

(***************************************************************************)
(* C6.  No step lowers the stored checkpoint (absent counts as 0), over    *)
(* any sequence of calls of processJob, retries, failures, resubmissions   *)
(* and crashes.                                                            *)
(***************************************************************************)
C6_CheckpointMonotonic == [][Stored(checkpoint') >= Stored(checkpoint)]_vars

C6_Witness ==
    /\ Stored(startCp) = 1 /\ cpLog = <<2>> /\ Stored(checkpoint) = 2

(***************************************************************************)
(* C7.  processJob queries the quota and sends only after                  *)
(* computeSendEmailInput has succeeded for every recipient of the job.  If *)
(* it fails for some recipient, processJob calls Fail with no send made,   *)
(* no quota query and the checkpoint as it was; no send of the loop ever   *)
(* fails on rendering after the dry run has passed.                        *)
(***************************************************************************)
Resolves(r) == RenderError(Mailing, r) = ""

C7_ValidateThenSend ==
    (InCall /\ Built) =>
        LET allResolve == \A r \in 0 .. n - 1 : Resolves(r)
        IN  /\ (nQuota > 0 \/ log # <<>>) => allResolve
            /\ (~allResolve /\ pc \notin {"getMailing", "dryRun"}) =>
                  /\ pc = "returned"
                  /\ calls = <<"Fail">>
                  /\ log = <<>>
                  /\ nQuota = 0
                  /\ checkpoint = startCp
            /\ \A k \in 1 .. Len(log) : log[k].out # [kind |-> "error", code |-> "render"]

C7_Witness ==
    /\ pc = "returned" /\ fault = "dryRun" /\ calls = <<"Fail">>
    /\ n = 2 /\ Resolves(0) /\ ~Resolves(1)
    /\ log = <<>> /\ nQuota = 0

(***************************************************************************)
(* C8.  As claimed: rendering is strict.  When the text or HTML template   *)
(* of the job refers to a context key that some recipient's context lacks, *)
(* computeSendEmailInput fails for that recipient, so the dry run fails:   *)
(* processJob calls Fail and sends nothing.                                *)
(***************************************************************************)
\* the context keys a template source refers to
References(src) ==
    IF src \in {"{{.pet_name}}", "{{index .pet_name 0}}"} THEN {"pet_name"} ELSE {}

\* recipient r lacks a key one of the job's templates refers to
LacksKey(r) ==
    (References(jobSpec.Text) \cup References(jobSpec.Html))
        \ jobSpec.Recipients[r + 1].Context # {}

C8_StrictRendering ==
    (InCall /\ Built /\ pc \notin {"getMailing", "dryRun"}
        /\ \E r \in 0 .. n - 1 : LacksKey(r)) =>
        /\ fault = "dryRun"
        /\ pc = "returned"
        /\ calls = <<"Fail">>
        /\ log = <<>>

(***************************************************************************)
(* C9.  When the quota query fails, processJob calls Submit and returns:   *)
(* the job is back in the queue, neither Fail nor Finish is called,        *)
(* nothing is sent and the checkpoint is as it was.  Nothing counts these  *)
(* failures: the same holds each time the job is taken again.              *)
(***************************************************************************)
C9_QuotaFaultResubmits ==
    fault = "getMaxSendRate" =>
        /\ pc = "returned"
        /\ calls = <<"Submit">>
        /\ jobLoc = "queue"
        /\ log = <<>> /\ nTokens = 0
        /\ checkpoint = startCp

C9_Witness ==
    /\ fault = "getMaxSendRate" /\ calls = <<"Submit">> /\ jobLoc = "queue"
    /\ Stored(startCp) = 1 /\ nQuota = 1

(***************************************************************************)
(* C10.  When storing the checkpoint after the successful send for         *)
(* recipient i fails, processJob calls Fail and returns at once: that send *)
(* is the last of the call, made once for i, and the stored checkpoint     *)
(* still stands at i, where the next call resumes.                         *)
(***************************************************************************)
C10_PersistFaultFails ==
    fault = "setCheckpoint" =>
        /\ pc = "returned"
        /\ calls = <<"Fail">>
        /\ log # <<>>
        /\ LastSend.out.kind \in {"messageId", "NullMangler"}
        /\ \A k \in 1 .. Len(log) - 1 : log[k].out.kind \in {"messageId", "NullMangler"} =>
                                           log[k].i < LastSend.i
        /\ Stored(checkpoint) = LastSend.i
        /\ Len(cpLog) = LastSend.i - Stored(startCp)

C10_Witness ==
    /\ fault = "setCheckpoint" /\ pc = "returned" /\ calls = <<"Fail">>
    /\ Len(log) = 2 /\ LastSend.i = 1 /\ LastSend.out.kind = "messageId"
    /\ Stored(checkpoint) = 1 /\ cpLog = <<1>>

(***************************************************************************)
(* C11.  On every exit path of processJob no token bucket created for the  *)
(* job is still running after the return: a call that returns before the   *)
(* bucket exists (build, dry run, quota fault) has nothing to stop, and    *)
(* every later return (checkpoint read, fatal send, checkpoint write,      *)
(* Finish) has stopped the bucket, exactly once; Stop is not called while  *)
(* the call is still under way.                                            *)
(***************************************************************************)
C11_BucketStopped ==
    /\ nStops <= 1
    /\ (InCall /\ pc # "returned") => nStops = 0 /\ tb # "stopped"
    /\ pc = "returned" =>
          /\ tb # "running"
          /\ tb = "stopped" <=> nStops = 1
          /\ tb = "none" <=> fault \in {"getMailing", "dryRun", "getMaxSendRate"}

\* a call that failed in the loop, at a checkpoint write, with its bucket stopped
C11_Witness ==
    /\ pc = "returned"
    /\ calls = <<"Fail">>
    /\ fault = "setCheckpoint"
    /\ tb = "stopped"
    /\ nStops = 1

(***************************************************************************)
(* C12.  With a mangler whose ShouldSend is false, processJob never calls  *)
(* the service's SendEmail: every send of the call, for every recipient,   *)
(* returns the sentinel "NullMangler" with a nil error, so that there is   *)
(* no fault to retry, and no step of the call adds a recipient to those    *)
(* the service confirmed.                                                  *)
(***************************************************************************)
C12_SuppressedSends ==
    [][(~mangler.ShouldSend /\ Sends) =>
          /\ LastSend' = [i |-> i, out |-> [kind |-> "NullMangler", code |-> ""]]
          /\ \A k \in 1 .. Len(log) : ~IsServiceCall(log[k])
          /\ ~IsServiceCall(LastSend')
          /\ confirmed' = confirmed
          /\ nBackoff' = 0]_vars

\* a job of two recipients finished without one call of the service
C12_Witness ==
    /\ ~mangler.ShouldSend
    /\ calls = <<"Finish">>
    /\ Len(log) = 2
    /\ \A k \in 1 .. 2 : log[k].out.kind = "NullMangler"
    /\ confirmed = {}

(***************************************************************************)
(* C13.  Every request computeSendEmailInput builds has one destination,   *)
(* the To address mangler.Mangle(recipient.Addr), and no Cc or Bcc: under  *)
(* SendToMe(addr) and SendToSimulator it is the fixed address whatever     *)
(* the recipient's own address is, and under DoNotMangle, DoNotSend and    *)
(* UseMockSesService it is the recipient's own address.                    *)
(***************************************************************************)
C13_DestinationMangled ==
    (params # <<>> /\ params[1].err = "") =>
        LET to == params[1].Destination.ToAddresses
            addr == jobSpec.Recipients[i + 1].Addr
        IN  /\ Len(to) = 1
            /\ params[1].Destination.CcAddresses = <<>>
            /\ params[1].Destination.BccAddresses = <<>>
            /\ mangler = SendToMe("johndoe@example.net") => to[1] = "johndoe@example.net"
            /\ mangler = SendToSimulator => to[1] = "success@simulator.amazonses.com"
            /\ mangler \in {DoNotMangle, DoNotSend, UseMockSesService("MockSES")} =>
                  to[1] = addr

\* a request redirected to the simulator from the second recipient address
C13_Witness ==
    /\ params # <<>>
    /\ mangler = SendToSimulator
    /\ jobSpec.Recipients[i + 1].Addr = "jimdoe@example.org"
    /\ params[1].Destination.ToAddresses = <<"success@simulator.amazonses.com">>

(***************************************************************************)
(* C14.  The sender's name, the sender's address and the subject of a      *)
(* request are each the recipient's value when that is not empty and the   *)
(* job's value otherwise, one independently of the others; Source is "<>"  *)
(* when the effective address is empty, the bare effective address when    *)
(* the effective name is empty, and otherwise a display name (the name     *)
(* quoted, or as an encoded word) followed by the address in angle         *)
(* brackets.                                                               *)
(***************************************************************************)
C14_SenderAndSubject ==
    (params # <<>> /\ params[1].err = "") =>
        LET recipient == jobSpec.Recipients[i + 1]
            name == IF recipient.FromName # "" THEN recipient.FromName ELSE jobSpec.FromName
            addr == IF recipient.FromAddr # "" THEN recipient.FromAddr ELSE jobSpec.FromAddr
            subject == IF recipient.Subject # "" THEN recipient.Subject ELSE jobSpec.Subject
        IN  /\ params[1].Subject = subject
            /\ addr = "" => params[1].Source = "<>"
            /\ (addr # "" /\ name = "") => params[1].Source = addr
            /\ (addr # "" /\ name # "") =>
                  \E display \in {"\"" \o name \o "\"", "=?utf-8?q?J=C3=B8hnny?=",
                                   "=?utf-8?q?John_D=C3=B8?="} :
                      params[1].Source = display \o " <" \o addr \o ">"

\* the recipient's name with the job's address and subject
C14_Witness ==
    /\ params # <<>>
    /\ jobSpec.Recipients[i + 1].FromName = "Johnny"
    /\ jobSpec.Recipients[i + 1].FromAddr = ""
    /\ jobSpec.Recipients[i + 1].Subject = ""
    /\ params[1].Source = "\"Johnny\" <johndoe@example.com>"
    /\ params[1].Subject = "Hello"

(***************************************************************************)
(* C15.  The checkpoint store's round trip: getCheckpoint on a job without *)
(* the attribute returns 0 and no error, and getCheckpoint after a         *)
(* setCheckpoint(job, k) that succeeded, k >= 0, returns k and no error,   *)
(* k being the last value so set, whatever failed setCheckpoint calls and  *)
(* getCheckpoint calls came in between.                                    *)
(***************************************************************************)
C15_CheckpointRoundTrip ==
    pc = "got" =>
        /\ fault = "none"
        /\ checkpoint = <<>> <=> cpLog = <<>>
        /\ cpLog = <<>> => i = 0
        /\ cpLog # <<>> => i = cpLog[1]

\* getCheckpoint returns the two-digit value that was set last
C15_Witness ==
    /\ pc = "got"
    /\ cpLog = <<12>>
    /\ i = 12
    /\ checkpoint = <<<<"{", "\"recipients_sent\"", ":", "1", "2", "}">>>>

(***************************************************************************)
(* C16.  In each mode (oneMode, allMode, foreverMode) a run of process()   *)
(* calls q.RescueDeadJobs before its first q.Take and never again: a run   *)
(* that has not rescued has not taken, a run in its loop has rescued       *)
(* exactly once, and no step of the loop rescues.                          *)
(***************************************************************************)
C16_RescueOnceFirst ==
    /\ nRescue <= 1
    /\ drv = "open" => nRescue = 0 /\ ~taken
    /\ drv \in {"take", "job"} => nRescue = 1
    /\ taken => nRescue = 1

\* an all-jobs run back at q.Take after a job it has finished
C16_Witness ==
    /\ mode = "allMode"
    /\ drv = "take"
    /\ taken
    /\ jobLoc = "done"
    /\ nRescue = 1

(***************************************************************************)
(* C18.  Within one call of processJob the sends go through the recipients *)
(* in order: the first send is for the index the checkpoint gave, each     *)
(* later send is for the same index as the one before it or for the next,  *)
(* and a send for the next index j comes only after the send before it     *)
(* succeeded and setCheckpoint has stored j, the value being still the     *)
(* stored one or below it.                                                 *)
(***************************************************************************)
C18_InOrderProgress ==
    \A k \in 1 .. Len(log) :
        /\ k = 1 => log[k].i = Stored(startCp)
        /\ k > 1 => log[k].i \in {log[k - 1].i, log[k - 1].i + 1}
        /\ (k > 1 /\ log[k].i = log[k - 1].i + 1) =>
              /\ log[k - 1].out.kind \in {"messageId", "NullMangler"}
              /\ \E c \in 1 .. Len(cpLog) : cpLog[c] = log[k].i
              /\ Stored(checkpoint) >= log[k].i

\* a retry for recipient 0, its success and checkpoint 1, then a send for 1
C18_Witness ==
    /\ Len(log) = 3
    /\ log[1].i = 0 /\ IsTransient(log[1])
    /\ log[2].i = 0 /\ log[2].out.kind = "messageId"
    /\ log[3].i = 1
    /\ cpLog = <<1>>

(***************************************************************************)
(* C19.  Every send of the loop, the first for a recipient and every retry *)
(* after a transient fault, under every mangler (DoNotSend included),      *)
(* comes after one token received from tb.Bucket for it alone: the tokens  *)
(* received in a call are as many as its sends, plus the one in hand when  *)
(* a send is about to be made, so that sends never outnumber tokens; and   *)
(* the call waits for a token only in the loop, with the bucket running.   *)
(***************************************************************************)
C19_TokenPerSend ==
    /\ InCall => nTokens = Len(log) + (IF pc = "send" THEN 1 ELSE 0)
    /\ Len(log) <= nTokens
    /\ pc \in {"token", "send"} => tb = "running"

\* two transient faults for one recipient, and a third token in hand
C19_Witness ==
    /\ pc = "send"
    /\ Len(log) = 2
    /\ IsTransient(log[1]) /\ IsTransient(log[2])
    /\ nTokens = 3

\* a send suppressed by DoNotSend, made with the one token received
C19_WitnessSuppressed ==
    /\ ~mangler.ShouldSend
    /\ Len(log) = 1
    /\ nTokens = 1

(***************************************************************************)
(* C20.  A call of processJob that has returned has called one of          *)
(* job.Fail, job.Finish and job.Submit, once, and a call still under way   *)
(* has called none; job.Finish is called only with the loop index at the   *)
(* number of recipients; and once the terminal operation is called the     *)
(* call makes no send, stores no checkpoint, signals no backoff and calls  *)
(* no further terminal operation.                                          *)
(***************************************************************************)
C20_OneTerminalCall ==
    /\ [](/\ pc = "returned" => Len(calls) = 1 /\ calls[1] \in {"Fail", "Finish", "Submit"}
          /\ (InCall /\ pc # "returned") => calls = <<>>
          /\ calls = <<"Finish">> => Built /\ i = n)
    /\ [][calls # <<>> =>
             /\ ~Sends
             /\ checkpoint' = checkpoint
             /\ Len(cpLog') <= Len(cpLog)
             /\ nBackoff' <= nBackoff
             /\ Len(calls') <= 1]_vars

\* a call that sent to both recipients and then called Finish
C20_Witness ==
    /\ pc = "returned"
    /\ calls = <<"Finish">>
    /\ Len(log) = 2
    /\ i = 2

(***************************************************************************)
(* C17.  A run in all-jobs mode or in one-job mode, on a queue with        *)
(* finitely many jobs and no submission from outside, eventually stops:    *)
(* process() returns.                                                      *)
(***************************************************************************)
C17_RunStops == mode \in {"allMode", "oneMode"} => <>(drv = "down")

\* what holds of the two modes: a take that yields no job ends the run in
\* all-jobs mode, and a one-job run never comes back to q.Take
C17_StopsAtNilTake ==
    /\ [](mode = "oneMode" /\ taken => drv \in {"job", "down"})
    /\ [][(mode = "allMode" /\ drv = "take" /\ jobLoc # "queue" /\ taken' # taken) =>
             drv' = "down"]_vars

\* the run stops when the quota query does not go on failing, the transient
\* faults of a call being at most MaxTransient
C17_StopsIfQuotaAnswers ==
    (mode \in {"allMode", "oneMode"} /\ <>[](fault # "getMaxSendRate")) => <>(drv = "down")

(***************************************************************************)
(* The job processed by runs that all have a sending mangler (DoNotMangle, *)
(* SendToSimulator): the steps of Spec, crashes and resubmissions          *)
(* included, with the mangler of every run drawn from the sending ones.    *)
(***************************************************************************)
InitSending == Init /\ mangler.ShouldSend

\* Process, ProcessOne or ProcessForever called with a sending mangler
StartRunSending == StartRun /\ mangler'.ShouldSend

NextSending ==
    \/ RescueDeadJobs
    \/ Take
    \/ TakeNone
    \/ AfterJob
    \/ Crash
    \/ StartRunSending
    \/ GetMailing
    \/ DryRun
    \/ GetMaxSendRate
    \/ GetCheckpoint
    \/ Loop
    \/ WaitToken
    \/ Send
    \/ SetCheckpoint
    \/ Resubmit

SpecSending == InitSending /\ [][NextSending]_vars

(***************************************************************************)
(* C21.  No recipient is lost.  The job starts without a checkpoint, its   *)
(* spec never changes and every run has a sending mangler: whenever the    *)
(* job is Finished, after any sequence of calls of processJob, crashes,    *)
(* failures and resubmissions, the service has confirmed a send for every  *)
(* recipient 0 .. N-1.  On the way, every recipient below the stored       *)
(* checkpoint has a confirmed send.                                        *)
(***************************************************************************)
C21_NoRecipientLost ==
    /\ \A r \in 0 .. Stored(checkpoint) - 1 : r \in confirmed
    /\ jobLoc = "done" => Built /\ \A r \in 0 .. n - 1 : r \in confirmed

\* the job is finished by a call that resumed at recipient 1, an earlier
\* call having ended after the first checkpoint
C21_Witness ==
    /\ jobLoc = "done"
    /\ n = 2
    /\ Stored(startCp) = 1
    /\ Len(log) >= 1
    /\ confirmed = {0, 1}

(***************************************************************************)
(* C22.  Duplicates are bounded.  A recipient the service has confirmed a  *)
(* send for is never beyond the stored checkpoint: at most the recipient   *)
(* at the checkpoint itself is confirmed and not yet counted.  A call of   *)
(* processJob sends only at the stored checkpoint, never below it, and     *)
(* when it calls the service for a recipient that already has a confirmed  *)
(* send, that recipient is the one the call resumed at.                    *)
(***************************************************************************)
C22_DuplicatesBounded ==
    /\ [](\A r \in confirmed : r <= Stored(checkpoint))
    /\ [][Sends =>
             /\ log'[Len(log')].i = Stored(checkpoint)
             /\ (IsServiceCall(log'[Len(log')]) /\ log'[Len(log')].i \in confirmed) =>
                   log'[Len(log')].i = Stored(startCp)]_vars

\* a call resumed at recipient 1, which an earlier call had a confirmed send
\* for, and sent to it again; the service rejected this second send
C22_Witness ==
    /\ Len(log) = 1
    /\ log[1].i = 1
    /\ log[1].out = [kind |-> "awserr", code |-> "MessageRejected"]
    /\ Stored(startCp) = 1
    /\ confirmed = {0, 1}

(***************************************************************************)
(* One run of process() with a service that may go on answering with a     *)
(* transient fault.  The log of a call records at most MaxTransient        *)
(* transient faults; the ones that come after are the steps SendThrottled  *)
(* and TokenAfterThrottle, which do to processJob what the recorded ones   *)
(* do (backoff, wait for a token, send to the same recipient again) and    *)
(* leave the log and the counts of the call as they are.  Fairness is that *)
(* of SpecRun: the goroutine takes a step that is possible, and the        *)
(* running bucket goes on yielding tokens.                                 *)
(***************************************************************************)
\* lines 163-174 once the log holds MaxTransient transient faults: SendEmail
\* answers Throttling or ServiceUnavailable again, processJob calls
\* tb.Backoff() and continues the inner loop with the same i
SendThrottled ==
    /\ pc = "send"
    /\ mangler.ShouldSend
    /\ RenderError(Mailing, i) = ""
    /\ Transients = MaxTransient
    /\ params' = <<computeSendEmailInput(Mailing, i, mangler)>>
    /\ pc' = "backoff"
    /\ UNCHANGED <<mode, mangler, drv, runVars, jobVars, i, tb, nStops, historyVars,
                   confirmed, succeeded>>

\* line 161 after such a fault: a token arrives from the running bucket
TokenAfterThrottle ==
    /\ pc = "backoff"
    /\ tb = "running"
    /\ pc' = "send"
    /\ UNCHANGED <<mode, mangler, drv, runVars, jobVars, i, tb, nStops, params,
                   historyVars, confirmed, succeeded>>

NextThrottled ==
    \/ RescueDeadJobs
    \/ Take
    \/ TakeNone
    \/ AfterJob
    \/ GetMailing
    \/ DryRun
    \/ GetMaxSendRate
    \/ GetCheckpoint
    \/ Loop
    \/ WaitToken
    \/ Send
    \/ SendThrottled
    \/ TokenAfterThrottle
    \/ SetCheckpoint

SpecThrottled == Init /\ [][NextThrottled]_vars /\ WF_vars(NextThrottled)

(***************************************************************************)
(* C23.  A call of processJob returns, having called Finish, Fail or       *)
(* Submit, provided the bucket goes on yielding tokens (the fairness of    *)
(* SpecThrottled) and the service does not go on for ever answering with   *)
(* transient faults: from some point on no send ends in a transient fault  *)
(* beyond the MaxTransient recorded ones of its call.                      *)
(***************************************************************************)
C23_ReturnsIfFaultsEnd ==
    <>[](pc # "backoff") =>
        ((InCall /\ pc # "returned") ~>
            (pc = "returned" /\ Len(calls) = 1
                /\ calls[1] \in {"Finish", "Fail", "Submit"}))

\* a call that had MaxTransient transient faults, went on and finished the job
C23_Witness ==
    /\ pc = "returned"
    /\ calls = <<"Finish">>
    /\ Transients = MaxTransient
    /\ nBackoff = MaxTransient

\* without the proviso the property fails: with a service that answers
\* every send for one recipient with a transient fault, processJob goes
\* round lines 160-174 for ever and calls none of Finish, Fail and Submit
C23_ReturnsAlways == (InCall /\ pc # "returned") ~> pc = "returned"

====
